---- MODULE Spec2Model ----
(***************************************************************************)
(* Model of the DeepSeek-OCR backend (backend/main.py, backend/pdf_utils.py)*)
(*                                                                         *)
(* Two specifications are defined over the same variables:                 *)
(*   Spec       the /api/ocr request handler on the asyncio event loop,    *)
(*              with the rasterizer's thread pool, the temporary files and *)
(*              the recognition engine;                                    *)
(*   SpecParse  the detection parser's pure functions applied to engine    *)
(*              texts drawn from a bounded set.                            *)
(*                                                                         *)
(* Engine texts are sequences of tokens.  A token is one of the literal    *)
(* tags the regular expressions of main.py match, a bracket, a comma, an   *)
(* integer literal, a whitespace run or a word of prose.                   *)
(***************************************************************************)
EXTENDS Integers, Sequences, FiniteSets, TLC

(***************************************************************************)
(* Tokens                                                                  *)
(***************************************************************************)
Tag(k) == [k |-> k, s |-> "", n |-> 0]
Word(s) == [k |-> "word", s |-> s, n |-> 0]
Num(n) == [k |-> "num", s |-> "", n |-> n]

REF == Tag("ref")
EREF == Tag("eref")
DET == Tag("det")
EDET == Tag("edet")
GROUNDING == Tag("grounding")
LB == Tag("lb")
RB == Tag("rb")
COMMA == Tag("comma")
WS == Tag("ws")

Min(a, b) == IF a <= b THEN a ELSE b

\* s[a..b] as a sequence (empty when b < a)
Slice(s, a, b) == IF b < a THEN <<>> ELSE [i \in 1..(b - a + 1) |-> s[a + i - 1]]

RECURSIVE Concat(_)
Concat(ss) == IF ss = <<>> THEN <<>> ELSE Head(ss) \o Concat(Tail(ss))

\* str.strip(): leading and trailing whitespace removed
RECURSIVE LStrip(_)
LStrip(t) == IF t # <<>> /\ Head(t).k = "ws" THEN LStrip(Tail(t)) ELSE t
RECURSIVE RStrip(_)
RStrip(t) ==
    IF t # <<>> /\ t[Len(t)].k = "ws" THEN RStrip(SubSeq(t, 1, Len(t) - 1)) ELSE t
Strip(t) == RStrip(LStrip(t))

\* the token kind k occurs in t ("<|det|>" in text)
Contains(t, k) == \E i \in 1..Len(t) : t[i].k = k

(***************************************************************************)
(* The regular expression DET_BLOCK                                        *)
(*   <|ref|>(label .*?)<|/ref|>\s*<|det|>\s*(coords \[.*\])\s*<|/det|>     *)
(* with re.DOTALL, matched as Python's backtracking matcher does: the      *)
(* label is lazy, the coordinate capture is greedy.                        *)
(***************************************************************************)
\* \s* followed by a literal: the first position >= i that holds no whitespace
RECURSIVE SkipWs(_, _)
SkipWs(t, i) == IF i <= Len(t) /\ t[i].k = "ws" THEN SkipWs(t, i + 1) ELSE i

\* a position of "]" from which \s*<|/det|> matches
ClosesAt(t, e) ==
    /\ t[e].k = "rb"
    /\ LET z == SkipWs(t, e + 1) IN z <= Len(t) /\ t[z].k = "edet"

\* greedy \[.*\]: the last closing bracket after the opening one at q
GreedyClose(t, q) ==
    LET c == {e \in (q + 1)..Len(t) : ClosesAt(t, e)}
    IN IF c = {} THEN 0 ELSE CHOOSE e \in c : \A f \in c : f <= e

\* the part of the pattern after <|/ref|>, tried at position j
MatchTail(t, j) ==
    LET p == SkipWs(t, j)
        q == SkipWs(t, p + 1)
        e == IF p <= Len(t) /\ t[p].k = "det" /\ q <= Len(t) /\ t[q].k = "lb"
             THEN GreedyClose(t, q) ELSE 0
    IN IF e = 0 THEN [ok |-> FALSE, from |-> 0, to |-> 0, end |-> 0]
       ELSE [ok |-> TRUE, from |-> q, to |-> e, end |-> SkipWs(t, e + 1) + 1]

\* the match that starts at i, if any: lazy label, so the first <|/ref|> after
\* which the rest of the pattern matches
MatchAt(t, i) ==
    LET js == {j \in (i + 1)..Len(t) : t[j].k = "eref" /\ MatchTail(t, j + 1).ok}
    IN IF i > Len(t) \/ t[i].k # "ref" \/ js = {}
       THEN [ok |-> FALSE, label |-> <<>>, coords |-> <<>>, start |-> 0, end |-> 0]
       ELSE LET j == CHOOSE x \in js : \A y \in js : x <= y
                m == MatchTail(t, j + 1)
            IN [ok |-> TRUE, label |-> Slice(t, i + 1, j - 1),
                coords |-> Slice(t, m.from, m.to), start |-> i, end |-> m.end]

\* finditer: the non-overlapping matches, leftmost first, scanning from pos
RECURSIVE FindIterFrom(_, _)
FindIterFrom(t, pos) ==
    IF pos > Len(t) THEN <<>>
    ELSE LET m == MatchAt(t, pos)
         IN IF m.ok THEN <<m>> \o FindIterFrom(t, m.end)
            ELSE FindIterFrom(t, pos + 1)

DET_BLOCK(t) == FindIterFrom(t, 1)

(***************************************************************************)
(* ast.literal_eval on the captured coordinate text.                       *)
(* A value is a number or a list of values; anything else in the text      *)
(* (a name, a tag, a missing comma, text after the closing bracket) makes  *)
(* literal_eval raise, or yields a tuple that the structure test of        *)
(* parse_detections rejects with ValueError: both leave the try block.     *)
(***************************************************************************)
NumVal(n) == [k |-> "num", n |-> n, items |-> <<>>]
ListVal(items) == [k |-> "list", n |-> 0, items |-> items]
ParseFail == [ok |-> FALSE, val |-> NumVal(0), next |-> 0]

RECURSIVE ParseValue(_, _)
RECURSIVE ParseItems(_, _, _)
\* a value starting at position i (whitespace before it is skipped)
ParseValue(t, i) ==
    LET p == SkipWs(t, i)
    IN IF p > Len(t) THEN ParseFail
       ELSE IF t[p].k = "num" THEN [ok |-> TRUE, val |-> NumVal(t[p].n), next |-> p + 1]
       ELSE IF t[p].k = "lb" THEN ParseItems(t, p + 1, <<>>)
       ELSE ParseFail

\* the elements of a list display, after "[" or after a comma
ParseItems(t, i, acc) ==
    LET p == SkipWs(t, i)
    IN IF p > Len(t) THEN ParseFail
       ELSE IF t[p].k = "rb" THEN [ok |-> TRUE, val |-> ListVal(acc), next |-> p + 1]
       ELSE LET v == ParseValue(t, p)
                q == IF v.ok THEN SkipWs(t, v.next) ELSE 0
            IN IF ~v.ok \/ q > Len(t) THEN ParseFail
               ELSE IF t[q].k = "comma" THEN ParseItems(t, q + 1, Append(acc, v.val))
               ELSE IF t[q].k = "rb"
                    THEN [ok |-> TRUE, val |-> ListVal(Append(acc, v.val)), next |-> q + 1]
               ELSE ParseFail

\* ok: the text is one list expression, val: the list
literal_eval(t) ==
    LET r == ParseValue(t, 1)
    IN IF r.ok /\ r.val.k = "list" /\ SkipWs(t, r.next) > Len(t) THEN r ELSE ParseFail

(***************************************************************************)
(* IEEE-754 binary64 arithmetic, as far as int(float(raw) / 999 * dim)     *)
(* needs it.  A non-zero double is sgn * 1.f * 2^e; its 52 fraction bits f *)
(* are held as four 13-bit limbs m = <<l1, l2, l3, l4>>, most significant  *)
(* first.  Every operation rounds to nearest, ties to even.  Operands are  *)
(* integers a double holds exactly: |raw| < 2^17 and 0 < dim < 2^13.       *)
(***************************************************************************)
LimbBits == 13
LimbBase == 8192

RECURSIVE Pow2(_)
Pow2(n) == IF n <= 0 THEN 1 ELSE 2 * Pow2(n - 1)

Abs(x) == IF x < 0 THEN -x ELSE x

\* number of binary digits of a >= 1
RECURSIVE BitLength(_)
BitLength(a) == IF a <= 1 THEN 1 ELSE 1 + BitLength(a \div 2)

F64Zero == [zero |-> TRUE, sgn |-> 1, e |-> 0, m |-> <<0, 0, 0, 0>>]

\* 1.m rounded up by one unit in the last place when `up`; a carry out of the
\* fraction gives 2.0 = 1.0 * 2^(e+1)
F64Pack(sgn, e, m, up) ==
    LET c == IF up THEN 1 ELSE 0
        v4 == m[4] + c
        v3 == m[3] + v4 \div LimbBase
        v2 == m[2] + v3 \div LimbBase
        v1 == m[1] + v2 \div LimbBase
    IN IF v1 \div LimbBase = 1
       THEN [zero |-> FALSE, sgn |-> sgn, e |-> e + 1, m |-> <<0, 0, 0, 0>>]
       ELSE [zero |-> FALSE, sgn |-> sgn, e |-> e,
             m |-> <<v1 % LimbBase, v2 % LimbBase, v3 % LimbBase, v4 % LimbBase>>]

\* scale num or den by powers of two until den <= num < 2 * den
RECURSIVE Normalize(_, _, _)
Normalize(num, den, e) ==
    IF num >= 2 * den THEN Normalize(num, 2 * den, e + 1)
    ELSE IF num < den THEN Normalize(2 * num, den, e - 1)
    ELSE [num |-> num, den |-> den, e |-> e]

\* float(a) / d for integers a and d > 0: the quotient by long division, one
\* limb at a time, then the rounding bit and the sticky remainder
F64DivInt(a, d) ==
    IF a = 0 THEN F64Zero
    ELSE LET nz == Normalize(Abs(a), d, 0)
             r0 == nz.num - nz.den
             l1 == (r0 * LimbBase) \div nz.den
             r1 == (r0 * LimbBase) % nz.den
             l2 == (r1 * LimbBase) \div nz.den
             r2 == (r1 * LimbBase) % nz.den
             l3 == (r2 * LimbBase) \div nz.den
             r3 == (r2 * LimbBase) % nz.den
             l4 == (r3 * LimbBase) \div nz.den
             r4 == (r3 * LimbBase) % nz.den
             half == 2 * r4 >= nz.den
             below == 2 * r4 # nz.den /\ r4 # 0
             up == half /\ (below \/ l4 % 2 = 1)
         IN F64Pack(IF a < 0 THEN -1 ELSE 1, nz.e, <<l1, l2, l3, l4>>, up)

\* f * float(w) for an integer w, 0 < w < 2^13: the exact product t.d1 d2 d3 d4
\* (t its integer part), shifted right by k bits to 1.n1 n2 n3 n4 and rounded
F64MulInt(f, w) ==
    IF f.zero THEN F64Zero
    ELSE LET v4 == f.m[4] * w
             v3 == f.m[3] * w + v4 \div LimbBase
             v2 == f.m[2] * w + v3 \div LimbBase
             v1 == f.m[1] * w + v2 \div LimbBase
             t == w + v1 \div LimbBase
             d1 == v1 % LimbBase
             d2 == v2 % LimbBase
             d3 == v3 % LimbBase
             d4 == v4 % LimbBase
             k == BitLength(t) - 1
             lo == Pow2(k)
             hi == Pow2(LimbBits - k)
             n1 == (t % lo) * hi + d1 \div lo
             n2 == (d1 % lo) * hi + d2 \div lo
             n3 == (d2 % lo) * hi + d3 \div lo
             n4 == (d3 % lo) * hi + d4 \div lo
             dropped == d4 % lo
             up == k > 0 /\ (\/ 2 * dropped > lo
                             \/ 2 * dropped = lo /\ n4 % 2 = 1)
         IN F64Pack(f.sgn, f.e + k, <<n1, n2, n3, n4>>, up)

\* int(f): truncation toward zero, for |f| < 2^27
F64Trunc(f) ==
    IF f.zero \/ f.e < 0 THEN 0
    ELSE IF f.e <= LimbBits
         THEN f.sgn * (Pow2(f.e) + f.m[1] \div Pow2(LimbBits - f.e))
    ELSE f.sgn * (Pow2(f.e) + f.m[1] * Pow2(f.e - LimbBits)
                  + f.m[2] \div Pow2(2 * LimbBits - f.e))

NORM == 999

\* int(float(raw) / 999 * dim)
ScaleCoord(raw, dim) == F64Trunc(F64MulInt(F64DivInt(raw, NORM), dim))

(***************************************************************************)
(* parse_detections and clean_grounding_text                               *)
(***************************************************************************)
Detection(label, x1, y1, x2, y2) == [label |-> label, box |-> <<x1, y1, x2, y2>>]

IsNumber(v) == v.k = "num"

\* the "for idx, box in enumerate(box_coords)" loop of one block.  float() of
\* an element that is no number raises TypeError inside the try: the loop ends
\* there and the boxes appended so far stay.
RECURSIVE ProcessBoxes(_, _, _, _)
ProcessBoxes(box_coords, label, image_width, image_height) ==
    IF box_coords = <<>> THEN [boxes |-> <<>>, exc |-> "none"]
    ELSE LET box == Head(box_coords)
             rest == ProcessBoxes(Tail(box_coords), label, image_width, image_height)
         IN IF box.k = "list" /\ Len(box.items) >= 4
            THEN IF \E i \in 1..4 : ~IsNumber(box.items[i])
                 THEN [boxes |-> <<>>, exc |-> "TypeError"]
                 ELSE [boxes |-> <<Detection(label,
                                      ScaleCoord(box.items[1].n, image_width),
                                      ScaleCoord(box.items[2].n, image_height),
                                      ScaleCoord(box.items[3].n, image_width),
                                      ScaleCoord(box.items[4].n, image_height))>>
                                 \o rest.boxes,
                       exc |-> rest.exc]
            ELSE rest

\* the try block of the loop over DET_BLOCK.finditer(text) for one match:
\* the boxes it appends and the exception it ends with, if any
BlockDetections(m, image_width, image_height) ==
    LET label == Strip(m.label)
        coords_str == Strip(m.coords)
        parsed == literal_eval(coords_str)
        flat == /\ Len(parsed.val.items) = 4
                /\ \A i \in 1..4 : IsNumber(parsed.val.items[i])
        box_coords == IF flat THEN <<parsed.val>> ELSE parsed.val.items
    IN IF ~parsed.ok THEN [boxes |-> <<>>, exc |-> "ValueError"]
       ELSE ProcessBoxes(box_coords, label, image_width, image_height)

\* "except Exception as e: ... continue"
ExceptException(e) == e \in {"ValueError", "TypeError"}

\* boxes: the list returned; raised: an exception left the function
RECURSIVE AllBlockDetections(_, _, _)
AllBlockDetections(ms, image_width, image_height) ==
    IF ms = <<>> THEN [boxes |-> <<>>, raised |-> FALSE]
    ELSE LET b == BlockDetections(Head(ms), image_width, image_height)
             rest == AllBlockDetections(Tail(ms), image_width, image_height)
         IN IF b.exc # "none" /\ ~ExceptException(b.exc)
            THEN [boxes |-> b.boxes, raised |-> TRUE]
            ELSE [boxes |-> b.boxes \o rest.boxes, raised |-> rest.raised]

parse_detections(text, image_width, image_height) ==
    AllBlockDetections(DET_BLOCK(text), image_width, image_height)

\* re.sub(pattern, r"\1", text): every match replaced by its label group
RECURSIVE SubLabelFrom(_, _)
SubLabelFrom(t, pos) ==
    IF pos > Len(t) THEN <<>>
    ELSE LET m == MatchAt(t, pos)
         IN IF m.ok THEN m.label \o SubLabelFrom(t, m.end)
            ELSE <<t[pos]>> \o SubLabelFrom(t, pos + 1)

\* re.sub(r"<\|grounding\|>", "", cleaned)
RECURSIVE RemoveGrounding(_)
RemoveGrounding(t) ==
    IF t = <<>> THEN <<>>
    ELSE IF Head(t).k = "grounding" THEN RemoveGrounding(Tail(t))
    ELSE <<Head(t)>> \o RemoveGrounding(Tail(t))

clean_grounding_text(text) == Strip(RemoveGrounding(SubLabelFrom(text, 1)))

(***************************************************************************)
(* Bounds and inputs                                                       *)
(***************************************************************************)
\* the requests in flight on one server process
Requests == {1, 2}
\* most pages of an uploaded PDF
MaxPages == 3
\* env_config("MAX_PDF_WORKERS", default=4, cast=int)
DefaultPdfWorkers == 4
WorkerSettings == {2, DefaultPdfWorkers}

\* pixel size of the rendering of source page k (0-based)
PageSize(k) == [w |-> 1000 + 24 * k, h |-> 2000]

Join(items, sep) ==
    IF items = <<>> THEN <<>>
    ELSE Head(items) \o Concat([i \in 1..(Len(items) - 1) |-> sep \o items[i + 1]])

Box(a, b, c, d) == <<LB, Num(a), COMMA, Num(b), COMMA, Num(c), COMMA, Num(d), RB>>
BoxList(boxes) == <<LB>> \o Join(boxes, <<COMMA, WS>>) \o <<RB>>
Block(label, coords) == <<REF>> \o label \o <<EREF, DET>> \o coords \o <<EDET>>

NoText == <<Word("No text returned by model.")>>
TaggedText ==
    <<Word("Invoice"), WS>> \o Block(<<Word("Total")>>, BoxList(<<Box(100, 200, 300, 400)>>))
ArtifactText == <<Word("From"), WS, Word("result.mmd")>>

\* what one call of model.infer does: the value it returns and what it leaves
\* in output_path/result.mmd ("keep": the file is not touched)
EngineOutcomes ==
    { [res |-> [type |-> "dict", text |-> TaggedText \o <<WS>>], mmd |-> "keep"],
      [res |-> [type |-> "str", text |-> <<>>], mmd |-> "write"],
      [res |-> [type |-> "other", text |-> <<>>], mmd |-> "keep"] }

(***************************************************************************)
(* State                                                                   *)
(***************************************************************************)
VARIABLES
    model,        \* the global model: "None" or "loaded"
    tokenizer,    \* the global tokenizer: "None" or "loaded"
    running,      \* the request whose coroutine holds the event loop, or 0
    pc,           \* where each request's handler stands
    upload,       \* the uploaded file of each request
    fs,           \* the temporary files and directories that exist
    mmd,          \* per request: the text of out_dir/result.mmd, or absent
    tmp_file, tmp_images, out_dir,     \* locals of ocr_inference
    images_list, all_results, exc,     \* locals of ocr_inference
    futures, num_workers,              \* the executor of pdf_to_images
    completed,    \* the page numbers of the last pdf_to_images call in the order
                  \* their tasks completed (kept until the page loop starts)
    response,     \* what each request answered
    p_pc, p_segs, p_text, p_size, p_boxes, p_cleaned,  \* the parser on its own
    p_page,       \* boxes and display_text of the page loop for the same text
    q_pc, q_args, prompt_text, metadata,               \* build_prompt on its own
    e_pc, pages_content, e_format, e_out,              \* the exporters on their own
    MAX_IMAGE_PIXELS, g_log    \* PIL's process-wide pixel ceiling; the rasterizer calls

handler_vars == <<model, tokenizer, running, pc, upload, fs, mmd, tmp_file, tmp_images,
                  out_dir, images_list, all_results, exc, futures, completed,
                  num_workers, response>>
parse_vars == <<p_pc, p_segs, p_text, p_size, p_boxes, p_cleaned, p_page>>
prompt_vars == <<q_pc, q_args, prompt_text, metadata>>
export_vars == <<e_pc, pages_content, e_format, e_out>>
guard_vars == <<MAX_IMAGE_PIXELS, g_log>>
aux_vars == <<parse_vars, prompt_vars, export_vars, guard_vars>>
vars == <<handler_vars, aux_vars>>

NoPath == <<0, "none", 0>>
UploadPath(r) == <<r, "upload", 0>>
PagePath(r, k) == <<r, "page", k>>
OutDirPath(r) == <<r, "outdir", 0>>
NoFile == [exists |-> FALSE, text |-> <<>>]
NoException == [kind |-> "none", status |-> 0, detail |-> ""]
HTTPException(status, detail) == [kind |-> "HTTPException", status |-> status, detail |-> detail]
NoResponse == [status |-> 0, detail |-> "", body |-> <<>>]
NoUpload == [is_pdf |-> FALSE, page_count |-> 0]

Uploads ==
    {[is_pdf |-> FALSE, page_count |-> 1]}
    \cup {[is_pdf |-> TRUE, page_count |-> n] : n \in 1..MaxPages}

ParseIdle ==
    /\ p_pc = "off"
    /\ p_segs = <<>>
    /\ p_text = <<>>
    /\ p_size = [w |-> 1, h |-> 1]
    /\ p_boxes = [boxes |-> <<>>, raised |-> FALSE]
    /\ p_cleaned = <<>>
    /\ p_page = [boxes |-> <<>>, display_text |-> <<>>]

\* Image.MAX_IMAGE_PIXELS = 500_000_000
PixelCeiling == 500000000

PromptIdle ==
    /\ q_pc = "off"
    /\ q_args = <<>>
    /\ prompt_text = <<>>
    /\ metadata = <<>>

ExportIdle ==
    /\ e_pc = "off"
    /\ pages_content = <<>>
    /\ e_format = "none"
    /\ e_out = <<>>

\* the state of PIL after "import main": the ceiling is set, nothing was called
GuardIdle ==
    /\ MAX_IMAGE_PIXELS = [none |-> FALSE, n |-> PixelCeiling]
    /\ g_log = <<>>

Init ==
    /\ model = "None"
    /\ tokenizer = "None"
    /\ running = 0
    /\ pc = [r \in Requests |-> "new"]
    /\ upload = [r \in Requests |-> NoUpload]
    /\ fs = {}
    /\ mmd = [r \in Requests |-> NoFile]
    /\ tmp_file = [r \in Requests |-> NoPath]
    /\ tmp_images = [r \in Requests |-> <<>>]
    /\ out_dir = [r \in Requests |-> NoPath]
    /\ images_list = [r \in Requests |-> <<>>]
    /\ all_results = [r \in Requests |-> <<>>]
    /\ exc = [r \in Requests |-> NoException]
    /\ futures = [r \in Requests |-> <<>>]
    /\ completed = [r \in Requests |-> <<>>]
    /\ num_workers = [r \in Requests |-> 0]
    /\ response = [r \in Requests |-> NoResponse]
    /\ ParseIdle
    /\ PromptIdle
    /\ ExportIdle
    /\ GuardIdle

\* no request has arrived
HandlerIdle ==
    /\ model = "None"
    /\ tokenizer = "None"
    /\ running = 0
    /\ pc = [r \in Requests |-> "new"]
    /\ upload = [r \in Requests |-> NoUpload]
    /\ fs = {}
    /\ mmd = [r \in Requests |-> NoFile]
    /\ tmp_file = [r \in Requests |-> NoPath]
    /\ tmp_images = [r \in Requests |-> <<>>]
    /\ out_dir = [r \in Requests |-> NoPath]
    /\ images_list = [r \in Requests |-> <<>>]
    /\ all_results = [r \in Requests |-> <<>>]
    /\ exc = [r \in Requests |-> NoException]
    /\ futures = [r \in Requests |-> <<>>]
    /\ completed = [r \in Requests |-> <<>>]
    /\ num_workers = [r \in Requests |-> 0]
    /\ response = [r \in Requests |-> NoResponse]

(***************************************************************************)
(* pdf_to_images: the rasterizer and its thread pool                       *)
(***************************************************************************)
\* the image _convert_pdf_page returns is named by the source page it renders
Render(page_num) == page_num

\* _convert_pdf_page((pdf_path, page_num, dpi)) -> (page_num, img)
convert_pdf_page(page_num) == <<page_num, Render(page_num)>>

\* page_args = [(pdf_path, page_num, dpi) for page_num in range(page_count)]
PageArgs(page_count) == [i \in 1..page_count |-> i - 1]

\* list(executor.map(...)): the futures' results in submission order
MapResults(fut) == [i \in 1..Len(fut) |-> fut[i].result]

\* results.sort(key=lambda x: x[0])
SortByPageNum(results) ==
    [i \in 1..Len(results) |->
        results[CHOOSE j \in 1..Len(results) :
                    Cardinality({l \in 1..Len(results) : results[l][1] < results[j][1]})
                    = i - 1]]

\* the results in the order the tasks completed, as concurrent.futures.as_completed
\* would give them, left unsorted
CollectAsCompleted(fut, order) == [i \in 1..Len(order) |-> fut[order[i] + 1].result[2]]

\* lines 102-111: collect, sort by page number, keep the images
CollectImages(fut, order) ==
    LET results == SortByPageNum(MapResults(fut))
    IN [i \in 1..Len(results) |-> results[i][2]]

Future(state, result) == [state |-> state, result |-> result]
NoResult == <<-1, -1>>
InState(fut, st) == {i \in 1..Len(fut) : fut[i].state = st}

(***************************************************************************)
(* The page loop's text handling (lines 440-476)                           *)
(***************************************************************************)
\* "Normalize response"
NormalizeResponse(res) ==
    IF res.type \in {"str", "dict"} THEN Strip(res.text) ELSE <<>>

\* "Fallback: check output file", then the sentinel
FallbackText(text, file) ==
    LET t == IF text = <<>> /\ file.exists THEN Strip(file.text) ELSE text
    IN IF t = <<>> THEN NoText ELSE t

OrOne(n) == IF n = 0 THEN 1 ELSE n

PageBoxes(text, size) ==
    IF Contains(text, "det") \/ Contains(text, "ref")
    THEN parse_detections(text, OrOne(size.w), OrOne(size.h)).boxes ELSE <<>>

LabelTexts(boxes) == [i \in 1..Len(boxes) |-> boxes[i].label]

\* the cleaner run only behind a test for "<|ref|>"
DisplayTextRefOnly(text, boxes) ==
    LET d == IF Contains(text, "ref") THEN clean_grounding_text(text) ELSE text
    IN IF d = <<>> /\ boxes # <<>> THEN Join(LabelTexts(boxes), <<COMMA, WS>>) ELSE d

\* lines 463-467
DisplayText(text, boxes) ==
    LET d == IF Contains(text, "ref") \/ Contains(text, "grounding")
             THEN clean_grounding_text(text) ELSE text
    IN IF d = <<>> /\ boxes # <<>> THEN Join(LabelTexts(boxes), <<COMMA, WS>>) ELSE d

\* page |-> 0 stands for None
PageResult(is_pdf, idx, text, size) ==
    LET boxes == PageBoxes(text, size)
    IN [page |-> IF is_pdf THEN idx + 1 ELSE 0,
        text |-> DisplayText(text, boxes),
        raw_text |-> text,
        boxes |-> boxes,
        image_dims |-> size]

PageMarker(n) == [k |-> "pagesep", s |-> "", n |-> n]

\* the page's text with no separator line before it
NoSeparator(page_num, t) == t
\* f"\n--- Page {page_num} ---\n{...}"
WithSeparator(page_num, t) == <<WS, PageMarker(page_num), WS>> \o t

\* the body of the JSONResponse (lines 479-524)
ResponseBody(is_pdf, results) ==
    IF is_pdf /\ Len(results) > 1
    THEN [success |-> TRUE,
          text |-> Join([i \in 1..Len(results) |->
                            WithSeparator(results[i].page, results[i].text)], <<WS>>),
          raw_text |-> Join([i \in 1..Len(results) |->
                            WithSeparator(results[i].page, results[i].raw_text)], <<WS>>),
          boxes |-> <<>>,
          image_dims |-> results[1].image_dims,
          is_pdf |-> TRUE,
          pages |-> results,
          total_pages |-> Len(results)]
    ELSE [success |-> TRUE,
          text |-> results[1].text,
          raw_text |-> results[1].raw_text,
          boxes |-> results[1].boxes,
          image_dims |-> results[1].image_dims,
          is_pdf |-> is_pdf,
          pages |-> <<>>,
          total_pages |-> 0]

(***************************************************************************)
(* The event loop.  ocr_inference is a coroutine: it holds the loop from   *)
(* the moment it is resumed until it awaits or ends.  Its one await is     *)
(* image.read(); model.infer and pdf_to_images are plain blocking calls.   *)
(***************************************************************************)
\* the call handed to a thread and awaited, as "await run_in_threadpool(model.infer,
\* ...)" would do: the coroutine gives up the event loop for the call's duration
AwaitInThread(r) == 0
\* res = model.infer(...) is a plain call: request r's coroutine keeps the event
\* loop while the engine runs
SyncCall(r) == r

\* "if model is None or tokenizer is None" with the test left out
NoReadinessCheck == FALSE
\* line 371
NotLoaded == model = "None" \/ tokenizer = "None"

\* lifespan: the model and the tokenizer are loaded at startup
Lifespan ==
    /\ running = 0
    /\ model = "None"
    /\ tokenizer' = "loaded"
    /\ model' = "loaded"
    /\ UNCHANGED <<running, pc, upload, fs, mmd, tmp_file, tmp_images, out_dir,
                   images_list, all_results, exc, futures, completed, num_workers,
                   response, aux_vars>>

\* lines 371-372: raised before the try, so no finally runs
Reject503(r) ==
    /\ running = 0
    /\ pc[r] = "new"
    /\ NotLoaded
    /\ response' = [response EXCEPT ![r] =
                       [status |-> 503, detail |-> "Model not loaded yet", body |-> <<>>]]
    /\ pc' = [pc EXCEPT ![r] = "done"]
    /\ UNCHANGED <<model, tokenizer, running, upload, fs, mmd, tmp_file, tmp_images,
                   out_dir, images_list, all_results, exc, futures, completed,
                   num_workers, aux_vars>>

\* lines 374-394: the temporary file is created, then the coroutine awaits
BeginRequest(r) ==
    /\ running = 0
    /\ pc[r] = "new"
    /\ ~NotLoaded
    /\ \E u \in Uploads : upload' = [upload EXCEPT ![r] = u]
    /\ fs' = fs \cup {UploadPath(r)}
    /\ pc' = [pc EXCEPT ![r] = "await_read"]
    /\ UNCHANGED <<model, tokenizer, running, mmd, tmp_file, tmp_images, out_dir,
                   images_list, all_results, exc, futures, completed, num_workers,
                   response, aux_vars>>

\* lines 394-396: the read returns, the content is written, tmp_file is set
ReadDone(r) ==
    /\ running = 0
    /\ pc[r] = "await_read"
    /\ running' = r
    /\ tmp_file' = [tmp_file EXCEPT ![r] = UploadPath(r)]
    /\ pc' = [pc EXCEPT ![r] = "convert"]
    /\ UNCHANGED <<model, tokenizer, upload, fs, mmd, tmp_images, out_dir, images_list,
                   all_results, exc, futures, completed, num_workers, response,
                   aux_vars>>

\* line 394 or 395 raises (the read fails, the write finds the disk full): the
\* with block closes the file (delete=False keeps it) and tmp_file is still
\* None; except Exception turns it into a 500
ReadFail(r) ==
    /\ running = 0
    /\ pc[r] = "await_read"
    /\ running' = r
    /\ exc' = [exc EXCEPT ![r] = HTTPException(500, "OSError: read failed")]
    /\ pc' = [pc EXCEPT ![r] = "finally"]
    /\ UNCHANGED <<model, tokenizer, upload, fs, mmd, tmp_file, tmp_images, out_dir,
                   images_list, all_results, futures, completed, num_workers, response,
                   aux_vars>>

\* lines 405-407
OpenImage(r) ==
    /\ running = r
    /\ pc[r] = "convert"
    /\ ~upload[r].is_pdf
    /\ images_list' = [images_list EXCEPT ![r] = <<Render(0)>>]
    /\ pc' = [pc EXCEPT ![r] = "mkdtemp"]
    /\ UNCHANGED <<model, tokenizer, running, upload, fs, mmd, tmp_file, tmp_images,
                   out_dir, all_results, exc, futures, completed, num_workers, response,
                   aux_vars>>

\* lines 408-409
OpenImageFail(r) ==
    /\ running = r
    /\ pc[r] = "convert"
    /\ ~upload[r].is_pdf
    /\ exc' = [exc EXCEPT ![r] = HTTPException(400, "Invalid image file: cannot identify")]
    /\ pc' = [pc EXCEPT ![r] = "finally"]
    /\ UNCHANGED <<model, tokenizer, running, upload, fs, mmd, tmp_file, tmp_images,
                   out_dir, images_list, all_results, futures, completed, num_workers,
                   response, aux_vars>>

\* line 83: fitz.open raises on a file that is no PDF
PdfOpenFail(r) ==
    /\ running = r
    /\ pc[r] = "convert"
    /\ upload[r].is_pdf
    /\ exc' = [exc EXCEPT ![r] = HTTPException(500, "FileDataError: cannot open")]
    /\ pc' = [pc EXCEPT ![r] = "finally"]
    /\ UNCHANGED <<model, tokenizer, running, upload, fs, mmd, tmp_file, tmp_images,
                   out_dir, images_list, all_results, futures, completed, num_workers,
                   response, aux_vars>>

\* lines 88-90: one page is rendered inline
PdfSinglePage(r) ==
    /\ running = r
    /\ pc[r] = "convert"
    /\ upload[r].is_pdf
    /\ upload[r].page_count = 1
    /\ images_list' = [images_list EXCEPT ![r] = <<convert_pdf_page(0)[2]>>]
    /\ pc' = [pc EXCEPT ![r] = "mkdtemp"]
    /\ UNCHANGED <<model, tokenizer, running, upload, fs, mmd, tmp_file, tmp_images,
                   out_dir, all_results, exc, futures, completed, num_workers, response,
                   aux_vars>>

\* lines 88-89, _convert_pdf_page raising
PdfSinglePageFail(r) ==
    /\ running = r
    /\ pc[r] = "convert"
    /\ upload[r].is_pdf
    /\ upload[r].page_count = 1
    /\ exc' = [exc EXCEPT ![r] = HTTPException(500, "RuntimeError: cannot render page")]
    /\ pc' = [pc EXCEPT ![r] = "finally"]
    /\ UNCHANGED <<model, tokenizer, running, upload, fs, mmd, tmp_file, tmp_images,
                   out_dir, images_list, all_results, futures, completed, num_workers,
                   response, aux_vars>>

\* lines 94-103: every page is submitted to the pool; the handler's thread then
\* blocks in list(executor.map(...)) without giving up the event loop
PdfDispatch(r) ==
    /\ running = r
    /\ pc[r] = "convert"
    /\ upload[r].is_pdf
    /\ upload[r].page_count > 1
    /\ \E max_workers \in WorkerSettings :
          num_workers' = [num_workers EXCEPT ![r] = Min(max_workers, upload[r].page_count)]
    /\ futures' = [futures EXCEPT ![r] =
                      [i \in 1..upload[r].page_count |-> Future("pending", NoResult)]]
    /\ completed' = [completed EXCEPT ![r] = <<>>]
    /\ pc' = [pc EXCEPT ![r] = "rasterizing"]
    /\ UNCHANGED <<model, tokenizer, running, upload, fs, mmd, tmp_file, tmp_images,
                   out_dir, images_list, all_results, exc, response, aux_vars>>

\* an idle worker thread takes the next work item from the pool's queue
TaskStart(r) ==
    /\ pc[r] = "rasterizing"
    /\ InState(futures[r], "pending") # {}
    /\ Cardinality(InState(futures[r], "running")) < num_workers[r]
    /\ LET i == CHOOSE x \in InState(futures[r], "pending") :
                    \A y \in InState(futures[r], "pending") : x <= y
       IN futures' = [futures EXCEPT ![r][i] = Future("running", NoResult)]
    /\ UNCHANGED <<model, tokenizer, running, pc, upload, fs, mmd, tmp_file, tmp_images,
                   out_dir, images_list, all_results, exc, completed, num_workers,
                   response, aux_vars>>

\* a worker thread returns from _convert_pdf_page
TaskComplete(r, i) ==
    /\ pc[r] \in {"rasterizing", "map_raised"}
    /\ i \in InState(futures[r], "running")
    /\ futures' = [futures EXCEPT ![r][i] =
                      Future("done", convert_pdf_page(PageArgs(Len(futures[r]))[i]))]
    /\ completed' = [completed EXCEPT ![r] = Append(@, PageArgs(Len(futures[r]))[i])]
    /\ UNCHANGED <<model, tokenizer, running, pc, upload, fs, mmd, tmp_file, tmp_images,
                   out_dir, images_list, all_results, exc, num_workers, response,
                   aux_vars>>

\* _convert_pdf_page raises in a worker thread
TaskFail(r, i) ==
    /\ pc[r] \in {"rasterizing", "map_raised"}
    /\ i \in InState(futures[r], "running")
    /\ futures' = [futures EXCEPT ![r][i] = Future("failed", NoResult)]
    /\ UNCHANGED <<model, tokenizer, running, pc, upload, fs, mmd, tmp_file, tmp_images,
                   out_dir, images_list, all_results, exc, completed, num_workers,
                   response, aux_vars>>

\* the iteration over executor.map reaches a failed future: the exception is
\* raised in the handler's thread and the futures not yet started are cancelled
MapRaise(r) ==
    /\ pc[r] = "rasterizing"
    /\ \E i \in InState(futures[r], "failed") :
          \A j \in 1..(i - 1) : futures[r][j].state = "done"
    /\ futures' = [futures EXCEPT ![r] =
                      [i \in 1..Len(@) |-> IF @[i].state = "pending"
                                           THEN Future("cancelled", NoResult) ELSE @[i]]]
    /\ pc' = [pc EXCEPT ![r] = "map_raised"]
    /\ UNCHANGED <<model, tokenizer, running, upload, fs, mmd, tmp_file, tmp_images,
                   out_dir, images_list, all_results, exc, completed, num_workers,
                   response, aux_vars>>

\* the with block's exit waits for the running tasks, then the exception leaves
\* pdf_to_images
PdfRaise(r) ==
    /\ pc[r] = "map_raised"
    /\ InState(futures[r], "running") = {}
    /\ exc' = [exc EXCEPT ![r] = HTTPException(500, "RuntimeError: cannot render page")]
    /\ futures' = [futures EXCEPT ![r] = <<>>]
    /\ completed' = [completed EXCEPT ![r] = <<>>]
    /\ num_workers' = [num_workers EXCEPT ![r] = 0]
    /\ pc' = [pc EXCEPT ![r] = "finally"]
    /\ UNCHANGED <<model, tokenizer, running, upload, fs, mmd, tmp_file, tmp_images,
                   out_dir, images_list, all_results, response, aux_vars>>

\* lines 103-111: every task is done; pdf_to_images returns the images
PdfReturn(r) ==
    /\ pc[r] = "rasterizing"
    /\ InState(futures[r], "done") = 1..Len(futures[r])
    /\ images_list' = [images_list EXCEPT ![r] = CollectImages(futures[r], completed[r])]
    /\ futures' = [futures EXCEPT ![r] = <<>>]
    /\ num_workers' = [num_workers EXCEPT ![r] = 0]
    /\ pc' = [pc EXCEPT ![r] = "mkdtemp"]
    /\ UNCHANGED <<model, tokenizer, running, upload, fs, mmd, tmp_file, tmp_images,
                   out_dir, all_results, exc, completed, response, aux_vars>>

(***************************************************************************)
(* The page loop, the response and the cleanup                             *)
(***************************************************************************)
\* line 412
MakeOutDir(r) ==
    /\ running = r
    /\ pc[r] = "mkdtemp"
    /\ out_dir' = [out_dir EXCEPT ![r] = OutDirPath(r)]
    /\ fs' = fs \cup {OutDirPath(r)}
    /\ all_results' = [all_results EXCEPT ![r] = <<>>]
    /\ completed' = [completed EXCEPT ![r] = <<>>]
    /\ pc' = [pc EXCEPT ![r] = "loop"]
    /\ UNCHANGED <<model, tokenizer, running, upload, mmd, tmp_file, tmp_images,
                   images_list, exc, futures, num_workers, response, aux_vars>>

\* the index of the page the loop stands at (enumerate's idx)
Idx(r) == Len(all_results[r])

\* lines 418-421: the page image is saved to a new temporary file
SavePage(r) ==
    /\ running = r
    /\ pc[r] = "loop"
    /\ Idx(r) < Len(images_list[r])
    /\ fs' = fs \cup {PagePath(r, Idx(r))}
    /\ tmp_images' = [tmp_images EXCEPT ![r] = Append(@, PagePath(r, Idx(r)))]
    /\ pc' = [pc EXCEPT ![r] = "infer"]
    /\ UNCHANGED <<model, tokenizer, running, upload, mmd, tmp_file, out_dir,
                   images_list, all_results, exc, futures, completed, num_workers,
                   response, aux_vars>>

\* line 419 raises (an image PNG cannot hold, a truncated file): the file was
\* created by NamedTemporaryFile(delete=False) and is not yet in tmp_images
SavePageFail(r) ==
    /\ running = r
    /\ pc[r] = "loop"
    /\ Idx(r) < Len(images_list[r])
    /\ fs' = fs \cup {PagePath(r, Idx(r))}
    /\ exc' = [exc EXCEPT ![r] = HTTPException(500, "OSError: cannot write image as PNG")]
    /\ pc' = [pc EXCEPT ![r] = "finally"]
    /\ UNCHANGED <<model, tokenizer, running, upload, mmd, tmp_file, tmp_images, out_dir,
                   images_list, all_results, futures, completed, num_workers, response,
                   aux_vars>>

\* line 427: model.infer is entered; it is called, not awaited
InferStart(r) ==
    /\ running = r
    /\ pc[r] = "infer"
    /\ running' = SyncCall(r)
    /\ pc' = [pc EXCEPT ![r] = "inferring"]
    /\ UNCHANGED <<model, tokenizer, upload, fs, mmd, tmp_file, tmp_images, out_dir,
                   images_list, all_results, exc, futures, completed, num_workers,
                   response, aux_vars>>

ArtifactOf(k) == [exists |-> TRUE, text |-> ArtifactText \o <<WS, Num(k)>>]

\* lines 427-476: the engine returns; the rest of the loop body
InferReturn(r) ==
    /\ running = r
    /\ pc[r] = "inferring"
    /\ \E o \in EngineOutcomes :
          LET file == IF o.mmd = "write" THEN ArtifactOf(Idx(r)) ELSE mmd[r]
              img == images_list[r][Idx(r) + 1]
              text == FallbackText(NormalizeResponse(o.res), file)
          IN /\ mmd' = [mmd EXCEPT ![r] = file]
             /\ all_results' = [all_results EXCEPT ![r] =
                    Append(@, PageResult(upload[r].is_pdf, Idx(r), text, PageSize(img)))]
    /\ pc' = [pc EXCEPT ![r] = "loop"]
    /\ UNCHANGED <<model, tokenizer, running, upload, fs, tmp_file, tmp_images, out_dir,
                   images_list, exc, futures, completed, num_workers, response,
                   aux_vars>>

\* model.infer raises
InferRaise(r) ==
    /\ running = r
    /\ pc[r] = "inferring"
    /\ exc' = [exc EXCEPT ![r] = HTTPException(500, "RuntimeError: CUDA out of memory")]
    /\ pc' = [pc EXCEPT ![r] = "finally"]
    /\ UNCHANGED <<model, tokenizer, running, upload, fs, mmd, tmp_file, tmp_images,
                   out_dir, images_list, all_results, futures, completed, num_workers,
                   response, aux_vars>>

\* lines 478-524: the loop is over and the response is built
BuildResponse(r) ==
    /\ running = r
    /\ pc[r] = "loop"
    /\ Idx(r) = Len(images_list[r])
    /\ response' = [response EXCEPT ![r] =
                       [status |-> 200, detail |-> "",
                        body |-> ResponseBody(upload[r].is_pdf, all_results[r])]]
    /\ pc' = [pc EXCEPT ![r] = "finally"]
    /\ UNCHANGED <<model, tokenizer, running, upload, fs, mmd, tmp_file, tmp_images,
                   out_dir, images_list, all_results, exc, futures, completed,
                   num_workers, aux_vars>>

\* a finally block that forgets the loop over tmp_images
RemovedWithoutPages(r) ==
    (IF tmp_file[r] # NoPath THEN {tmp_file[r]} ELSE {})
    \cup (IF out_dir[r] # NoPath THEN {out_dir[r]} ELSE {})

\* what the finally block removes (lines 533-544)
Removed(r) ==
    (IF tmp_file[r] # NoPath THEN {tmp_file[r]} ELSE {})
    \cup {tmp_images[r][i] : i \in 1..Len(tmp_images[r])}
    \cup (IF out_dir[r] # NoPath THEN {out_dir[r]} ELSE {})

ErrorResponse(e) == [status |-> e.status, detail |-> e.detail, body |-> <<>>]

\* a handler that answers with the pages processed before the failure
BestEffortAnswer(r) ==
    IF exc[r].kind = "none" THEN response[r]
    ELSE IF all_results[r] # <<>>
         THEN [status |-> 200, detail |-> "",
               body |-> ResponseBody(upload[r].is_pdf, all_results[r])]
    ELSE ErrorResponse(exc[r])

\* lines 490-529: the JSONResponse returned, or the HTTPException raised
Answer(r) == IF exc[r].kind = "none" THEN response[r] ELSE ErrorResponse(exc[r])

\* lines 526-544: the exception, if any, becomes the answer; the temporary
\* files are removed; the handler ends and frees the event loop
Finally(r) ==
    /\ running = r
    /\ pc[r] = "finally"
    /\ fs' = fs \ Removed(r)
    /\ mmd' = [mmd EXCEPT ![r] = IF out_dir[r] # NoPath THEN NoFile ELSE @]
    /\ response' = [response EXCEPT ![r] = Answer(r)]
    /\ tmp_file' = [tmp_file EXCEPT ![r] = NoPath]
    /\ tmp_images' = [tmp_images EXCEPT ![r] = <<>>]
    /\ out_dir' = [out_dir EXCEPT ![r] = NoPath]
    /\ images_list' = [images_list EXCEPT ![r] = <<>>]
    /\ all_results' = [all_results EXCEPT ![r] = <<>>]
    /\ exc' = [exc EXCEPT ![r] = NoException]
    /\ running' = 0
    /\ pc' = [pc EXCEPT ![r] = "done"]
    /\ UNCHANGED <<model, tokenizer, upload, futures, completed, num_workers, aux_vars>>

Next ==
    \/ Lifespan
    \/ \E r \in Requests :
          \/ Reject503(r)
          \/ BeginRequest(r)
          \/ ReadDone(r)
          \/ ReadFail(r)
          \/ OpenImage(r)
          \/ OpenImageFail(r)
          \/ PdfOpenFail(r)
          \/ PdfSinglePage(r)
          \/ PdfSinglePageFail(r)
          \/ PdfDispatch(r)
          \/ TaskStart(r)
          \/ \E i \in 1..MaxPages : TaskComplete(r, i) \/ TaskFail(r, i)
          \/ MapRaise(r)
          \/ PdfRaise(r)
          \/ PdfReturn(r)
          \/ MakeOutDir(r)
          \/ SavePage(r)
          \/ SavePageFail(r)
          \/ InferStart(r)
          \/ InferReturn(r)
          \/ InferRaise(r)
          \/ BuildResponse(r)
          \/ Finally(r)

Spec == Init /\ [][Next]_vars

(***************************************************************************)
(* The detection parser on its own: parse_detections and                   *)
(* clean_grounding_text applied to a text made of up to MaxSegments        *)
(* segments, for an image of one of a few sizes.                           *)
(***************************************************************************)
MaxSegments == 3

Segments ==
    << <<Word("Invoice")>>,
       <<WS>>,
       <<GROUNDING>>,
       Block(<<Word("Total")>>, BoxList(<<Box(100, 200, 300, 400)>>)),
       Block(<<WS, Word("Date"), WS>>, <<WS>> \o Box(0, 0, 999, 999) \o <<WS>>),
       Block(<<Word("Name")>>, BoxList(<<Box(63, 126, 252, 279), Box(-5, 6, 1007, 8)>>)),
       Block(<<Word("Tax")>>, <<LB, Word("abc"), RB>>),
       <<DET, LB, Word("abc"), RB, EDET>>,
       Block(<<Word("Item")>>,
             BoxList(<<Box(1, 2, 3, 4), <<LB, Num(5), COMMA, Num(6), COMMA, Num(7), RB>>,
                       Box(9, 10, 11, 12)>>)),
       Block(<<Word("Cell")>>,
             BoxList(<<Box(1, 2, 3, 4),
                       <<LB, Num(5), COMMA, LB, RB, COMMA, Num(7), COMMA, Num(8), RB>>,
                       Box(9, 10, 11, 12)>>)) >>

\* the segments that are well-formed detection blocks, with label and boxes
WellFormed == {4, 5, 6}
Malformed == {7, 8}
\* blocks with a box that cannot be used between two boxes that can: a box of
\* three numbers (9), a box whose second element is a list (10)
PartlyValid == {9, 10}
SegLabel(i) == CASE i = 4 -> <<Word("Total")>>
                 [] i = 5 -> <<WS, Word("Date"), WS>>
                 [] i = 6 -> <<Word("Name")>>
                 [] i = 9 -> <<Word("Item")>>
                 [] i = 10 -> <<Word("Cell")>>
                 [] OTHER -> <<>>
SegBoxes(i) == CASE i = 4 -> <<<<100, 200, 300, 400>>>>
                 [] i = 5 -> <<<<0, 0, 999, 999>>>>
                 [] i = 6 -> <<<<63, 126, 252, 279>>, <<-5, 6, 1007, 8>>>>
                 [] i \in {9, 10} -> <<<<1, 2, 3, 4>>, <<9, 10, 11, 12>>>>
                 [] OTHER -> <<>>

ImageSizes == {[w |-> 1000, h |-> 2000], [w |-> 111, h |-> 222], [w |-> 640, h |-> 480]}

SegmentChoices == UNION {[1..n -> 1..Len(Segments)] : n \in 0..MaxSegments}
TextOf(segs) == Concat([i \in 1..Len(segs) |-> Segments[segs[i]]])

InitParse ==
    /\ HandlerIdle
    /\ PromptIdle
    /\ ExportIdle
    /\ GuardIdle
    /\ p_pc = "input"
    /\ p_segs \in SegmentChoices
    /\ p_text = TextOf(p_segs)
    /\ p_size \in ImageSizes
    /\ p_boxes = [boxes |-> <<>>, raised |-> FALSE]
    /\ p_cleaned = <<>>
    /\ p_page = [boxes |-> <<>>, display_text |-> <<>>]

\* boxes = parse_detections(text, image_width, image_height)
ParseDetections ==
    /\ p_pc = "input"
    /\ p_boxes' = parse_detections(p_text, p_size.w, p_size.h)
    /\ p_pc' = "parsed"
    /\ UNCHANGED <<handler_vars, prompt_vars, export_vars, guard_vars,
                   p_segs, p_text, p_size, p_cleaned, p_page>>

\* display_text = clean_grounding_text(text)
CleanGroundingText ==
    /\ p_pc = "parsed"
    /\ p_cleaned' = clean_grounding_text(p_text)
    /\ p_pc' = "cleaned"
    /\ UNCHANGED <<handler_vars, prompt_vars, export_vars, guard_vars,
                   p_segs, p_text, p_size, p_boxes, p_page>>

\* lines 441-467 of the page loop for an engine that returns the same text as a
\* string and writes no artifact: the text is trimmed, the sentinel replaces an
\* empty text, and the parser and the cleaner run behind their marker tests
PageLoopText ==
    /\ p_pc = "cleaned"
    /\ LET text == FallbackText(NormalizeResponse([type |-> "str", text |-> p_text]), NoFile)
           boxes == PageBoxes(text, p_size)
       IN p_page' = [boxes |-> boxes, display_text |-> DisplayText(text, boxes)]
    /\ p_pc' = "page"
    /\ UNCHANGED <<handler_vars, prompt_vars, export_vars, guard_vars,
                   p_segs, p_text, p_size, p_boxes, p_cleaned>>

NextParse == ParseDetections \/ CleanGroundingText \/ PageLoopText

SpecParse == InitParse /\ [][NextParse]_vars

(***************************************************************************)
(* build_prompt on its own, and the metadata the response echoes           *)
(***************************************************************************)
IMAGE == Tag("image")
NL == Tag("nl")

\* Optional[str]: None, or a string
None == [none |-> TRUE, s |-> <<>>]
Some(str) == [none |-> FALSE, s |-> str]
\* the truth value Python gives an Optional[str]
Truthy(o) == ~o.none /\ o.s # <<>>

Modes == {"plain_ocr", "markdown", "tables_csv", "tables_md", "kv_json", "figure_chart",
          "find_ref", "layout_map", "pii_redact", "multilingual", "describe", "freeform",
          "unknown"}

DefaultInstruction == <<Word("OCR this image.")>>
CaptionRequest == <<NL, Word("Then add a one-paragraph description of the image.")>>

\* the mode never asks for grounding
GroundingNotRequired(mode) == FALSE
\* line 195
mode_requires_grounding(mode) == mode \in {"find_ref", "layout_map", "pii_redact"}

\* lines 199-243: the if/elif chain
ModeInstruction(mode, user_prompt, find_term, schema) ==
    CASE mode = "plain_ocr" -> <<Word("Free OCR.")>>
      [] mode = "markdown" -> <<Word("Convert the document to markdown.")>>
      [] mode = "tables_csv" -> <<Word("Extract every table and output CSV only. ...")>>
      [] mode = "tables_md" -> <<Word("Extract every table as GitHub-flavored Markdown tables. ...")>>
      [] mode = "kv_json" ->
            LET schema_text == IF Truthy(schema) THEN Strip(schema.s) ELSE <<Word("{}")>>
            IN <<Word("Extract key fields and return strict JSON only. "),
                 Word("Use this schema (fill the values): ")>> \o schema_text
      [] mode = "figure_chart" -> <<Word("Parse the figure. ...")>>
      [] mode = "find_ref" ->
            LET t == Strip(IF Truthy(find_term) THEN find_term.s ELSE <<>>)
                key == IF t # <<>> THEN t ELSE <<Word("Total")>>
            IN <<Word("Locate "), REF>> \o key \o <<EREF, Word(" in the image.")>>
      [] mode = "layout_map" -> <<Word("Return a JSON array of blocks ...")>>
      [] mode = "pii_redact" -> <<Word("Find all occurrences of emails, ...")>>
      [] mode = "multilingual" -> <<Word("Free OCR. Detect the language automatically ...")>>
      [] mode = "describe" -> <<Word("Describe this image. Focus on visible key elements.")>>
      [] mode = "freeform" -> IF user_prompt # <<>> THEN Strip(user_prompt)
                              ELSE DefaultInstruction
      [] OTHER -> DefaultInstruction

\* lines 245-246
Instruction(mode, user_prompt, find_term, schema, include_caption) ==
    LET instruction == ModeInstruction(mode, user_prompt, find_term, schema)
    IN IF include_caption /\ mode # "describe" THEN instruction \o CaptionRequest
       ELSE instruction

build_prompt(mode, user_prompt, grounding, find_term, schema, include_caption) ==
    LET parts == << <<IMAGE>> >>
                 \o (IF grounding \/ mode_requires_grounding(mode)
                     THEN << <<GROUNDING>> >> ELSE <<>>)
                 \o <<Instruction(mode, user_prompt, find_term, schema, include_caption)>>
    IN Join(parts, <<NL>>)

\* "grounding": grounding or (mode in {"find_ref","layout_map","pii_redact"})
MetadataGrounding(mode, grounding) ==
    grounding \/ mode \in {"find_ref", "layout_map", "pii_redact"}

UserPrompts == {<<>>, <<WS>>, <<WS, Word("Read"), WS, Word("aloud"), WS>>,
                <<GROUNDING, Word("Read")>>}
FindTerms == {None, Some(<<>>), Some(<<WS>>), Some(<<WS, Word("Invoice"), WS>>)}
Schemas == {None, Some(<<>>), Some(<<WS>>), Some(<<WS, Word("{a}"), WS>>)}

InitPrompt ==
    /\ HandlerIdle
    /\ ParseIdle
    /\ ExportIdle
    /\ GuardIdle
    /\ q_pc = "input"
    /\ q_args \in [mode : Modes, user_prompt : UserPrompts, grounding : BOOLEAN,
                   find_term : FindTerms, schema : Schemas, include_caption : BOOLEAN]
    /\ prompt_text = <<>>
    /\ metadata = <<>>

\* lines 375-382: prompt_text = build_prompt(...)
BuildPrompt ==
    /\ q_pc = "input"
    /\ prompt_text' = build_prompt(q_args.mode, q_args.user_prompt, q_args.grounding,
                                   q_args.find_term, q_args.schema, q_args.include_caption)
    /\ q_pc' = "built"
    /\ UNCHANGED <<handler_vars, parse_vars, export_vars, guard_vars, q_args, metadata>>

\* the "metadata" object of the response (lines 497-504 and 517-523)
ResponseMetadata ==
    /\ q_pc = "built"
    /\ metadata' = [mode |-> q_args.mode,
                    grounding |-> MetadataGrounding(q_args.mode, q_args.grounding)]
    /\ q_pc' = "answered"
    /\ UNCHANGED <<handler_vars, parse_vars, export_vars, guard_vars, q_args, prompt_text>>

NextPrompt == BuildPrompt \/ ResponseMetadata

SpecPrompt == InitPrompt /\ [][NextPrompt]_vars

(***************************************************************************)
(* DocumentConverter: to_markdown, to_html and to_docx for a list of pages *)
(* that are plain text and carry no 'images' key                           *)
(***************************************************************************)
MaxExportPages == 3

PageTexts == {<<>>, <<Word("alpha")>>, <<Word("beta"), WS, Word("gamma")>>}
PagesContents == UNION {[1..n -> {[text |-> t] : t \in PageTexts}] : n \in 0..MaxExportPages}

\* f"# Page {idx + 1}\n"
MdPageHeader(n) == <<[k |-> "md_h1", s |-> "# Page", n |-> n], NL>>
\* "\n\n---\n\n"
MdPageSeparator == <<NL, NL, Tag("hr"), NL, NL>>

\* lines 34-53
to_markdown(pages) ==
    LET md_content ==
            Concat([i \in 1..Len(pages) |->
                       <<MdPageHeader(i), pages[i].text, MdPageSeparator>>])
    IN Join(md_content, <<NL>>)

HtmlHeader == <<Tag("html_head"), [k |-> "h1", s |-> "DeepSeek OCR Results", n |-> 0]>>
HtmlFooter == <<Tag("html_foot")>>
\* text without markdown and without '<': f'<p>{text}</p>'
HtmlContent(text) == <<Tag("p")>> \o text \o <<Tag("/p")>>

\* lines 66-169
to_html(pages) ==
    LET html_parts ==
            <<HtmlHeader>>
            \o Concat([i \in 1..Len(pages) |->
                          << <<Tag("div_page")>>,
                             <<[k |-> "h2", s |-> "Page", n |-> i]>>,
                             HtmlContent(pages[i].text),
                             <<Tag("/div")>> >>])
            \o <<HtmlFooter>>
    IN Join(html_parts, <<NL>>)

\* _add_formatted_text_to_doc for a text of one paragraph: a blank one is left out
DocParagraphs(text) ==
    IF Strip(text) = <<>> THEN <<>> ELSE <<[k |-> "paragraph", s |-> "", n |-> 0]>>

\* lines 182-228: the elements added to the document, in order
to_docx(pages) ==
    <<[k |-> "docx_h0", s |-> "DeepSeek OCR Results", n |-> 0]>>
    \o Concat([i \in 1..Len(pages) |->
                  <<[k |-> "docx_h1", s |-> "Page", n |-> i]>>
                  \o DocParagraphs(pages[i].text)
                  \o (IF i - 1 < Len(pages) - 1 THEN <<Tag("page_break")>> ELSE <<>>)])

InitExport ==
    /\ HandlerIdle
    /\ ParseIdle
    /\ PromptIdle
    /\ GuardIdle
    /\ e_pc = "input"
    /\ pages_content \in PagesContents
    /\ e_format = "none"
    /\ e_out = <<>>

ToMarkdown ==
    /\ e_pc = "input"
    /\ e_out' = to_markdown(pages_content)
    /\ e_format' = "markdown"
    /\ e_pc' = "exported"
    /\ UNCHANGED <<handler_vars, parse_vars, prompt_vars, guard_vars, pages_content>>

ToHtml ==
    /\ e_pc = "input"
    /\ e_out' = to_html(pages_content)
    /\ e_format' = "html"
    /\ e_pc' = "exported"
    /\ UNCHANGED <<handler_vars, parse_vars, prompt_vars, guard_vars, pages_content>>

ToDocx ==
    /\ e_pc = "input"
    /\ e_out' = to_docx(pages_content)
    /\ e_format' = "docx"
    /\ e_pc' = "exported"
    /\ UNCHANGED <<handler_vars, parse_vars, prompt_vars, guard_vars, pages_content>>

NextExport == ToMarkdown \/ ToHtml \/ ToDocx

SpecExport == InitExport /\ [][NextExport]_vars

(***************************************************************************)
(* The pixel ceiling of the image library and the two rasterizers:         *)
(* pdf_to_images (main.py, by path) and pdf_to_images_high_quality         *)
(* (pdf_utils.py, by bytes).  A document is the pixel counts of its pages. *)
(***************************************************************************)
MaxCalls == 3

PagePixels == {1000000, 600000000, 1100000000}
Docs == {<<>>} \cup {<<p>> : p \in PagePixels}

NoCeiling == [none |-> TRUE, n |-> 0]

\* Image.open on a rendered page: no test when the ceiling is None, an error
\* above twice the ceiling, only a warning between the ceiling and twice it
ImageOpen(ceiling, pixels) ==
    IF ceiling.none THEN "opened"
    ELSE IF pixels > 2 * ceiling.n THEN "refused"
    ELSE IF pixels > ceiling.n THEN "warned"
    ELSE "opened"

\* main.py lines 68-111, each page opened at line 56 under the ceiling in
\* force; a document without pages makes the executor raise
pdf_to_images(ceiling, doc) ==
    IF Len(doc) = 0 THEN <<"error">>
    ELSE [i \in 1..Len(doc) |-> ImageOpen(ceiling, doc[i])]

\* pdf_utils.py lines 36-57: the ceiling is taken away before each page is opened
pdf_to_images_high_quality(doc) ==
    [ceiling |-> IF Len(doc) >= 1 THEN NoCeiling ELSE MAX_IMAGE_PIXELS,
     pages |-> [i \in 1..Len(doc) |->
                   ImageOpen((IF Len(doc) >= 1 THEN NoCeiling ELSE MAX_IMAGE_PIXELS), doc[i])]]

InitGuard ==
    /\ HandlerIdle
    /\ ParseIdle
    /\ PromptIdle
    /\ ExportIdle
    /\ MAX_IMAGE_PIXELS = [none |-> FALSE, n |-> PixelCeiling]
    /\ g_log = <<>>

PdfToImages ==
    /\ Len(g_log) < MaxCalls
    /\ \E doc \in Docs :
          g_log' = Append(g_log, [fn |-> "pdf_to_images", doc |-> doc,
                                  pages |-> pdf_to_images(MAX_IMAGE_PIXELS, doc)])
    /\ UNCHANGED <<handler_vars, parse_vars, prompt_vars, export_vars, MAX_IMAGE_PIXELS>>

PdfToImagesHighQuality ==
    /\ Len(g_log) < MaxCalls
    /\ \E doc \in Docs :
          LET r == pdf_to_images_high_quality(doc)
          IN /\ MAX_IMAGE_PIXELS' = r.ceiling
             /\ g_log' = Append(g_log, [fn |-> "pdf_to_images_high_quality", doc |-> doc,
                                        pages |-> r.pages])
    /\ UNCHANGED <<handler_vars, parse_vars, prompt_vars, export_vars>>

NextGuard == PdfToImages \/ PdfToImagesHighQuality

SpecGuard == InitGuard /\ [][NextGuard]_vars

(***************************************************************************)
(* Properties of the request handler (specification Spec)                  *)
(***************************************************************************)
MultiPage(r) == upload[r].is_pdf /\ upload[r].page_count > 1
FilesOf(r) == {p \in fs : p[1] = r}
PageFilesOf(r) == {p \in fs : p[1] = r /\ p[2] = "page"}

\* C1: for a PDF of N > 1 pages, what pdf_to_images returns is exactly N images,
\* the image at position k (0-based) being the rendering of source page k,
\* whatever the order in which the pool's tasks started and completed.
C1_PageOrder ==
    \A r \in Requests :
        (MultiPage(r) /\ images_list[r] # <<>>)
            => images_list[r] = [i \in 1..upload[r].page_count |-> Render(i - 1)]

\* pdf_to_images has returned for a PDF whose first task to complete was not
\* page 0 and whose completion order is the reverse of the page order
C1_Witness ==
    \E r \in Requests :
        /\ pc[r] = "mkdtemp"
        /\ MultiPage(r)
        /\ Len(completed[r]) = upload[r].page_count
        /\ \A i \in 1..(Len(completed[r]) - 1) : completed[r][i] > completed[r][i + 1]
        /\ Len(images_list[r]) = upload[r].page_count

\* C2: model.infer is never running twice at once, neither for two requests of
\* the process nor for two pages of one request, and when it runs for a request
\* the rasterization of every page of that request's document is over.
C2_EngineNeverConcurrent ==
    /\ Cardinality({r \in Requests : pc[r] = "inferring"}) <= 1
    /\ \A r \in Requests :
          pc[r] \in {"infer", "inferring"}
              => /\ futures[r] = <<>>
                 /\ Len(images_list[r]) = upload[r].page_count
                 /\ Idx(r) < Len(images_list[r])

\* the engine runs for a later page of a multi-page request while another
\* request is suspended in "await image.read()"
C2_Witness ==
    \E r, q \in Requests :
        /\ r # q
        /\ pc[r] = "inferring"
        /\ MultiPage(r)
        /\ Idx(r) >= 1
        /\ pc[q] = "await_read"

\* C3: when a request has ended, on whatever path, nothing it created is left:
\* not the copy of the upload, not a page image file, not the working directory.
C3_AllTransientRemoved ==
    \A r \in Requests : pc[r] = "done" => FilesOf(r) = {}

C5_NoPartialResults ==
    /\ [](\A r \in Requests :
            /\ response[r].status = 200
                 => /\ response[r].body.success
                    /\ IF MultiPage(r)
                       THEN /\ response[r].body.total_pages = upload[r].page_count
                            /\ Len(response[r].body.pages) = upload[r].page_count
                       ELSE upload[r].page_count = 1
            /\ (pc[r] = "finally" /\ exc[r].kind = "none")
                 => /\ response[r].status = 200
                    /\ Len(all_results[r]) = upload[r].page_count
            /\ exc[r].kind # "none" => response[r] = NoResponse)
    /\ [][\A r \in Requests :
            (pc[r] = "finally" /\ pc'[r] = "done" /\ exc[r].kind # "none")
                => /\ response'[r].status \in {400, 500}
                   /\ response'[r].detail # ""
                   /\ response'[r].detail = exc[r].detail
                   /\ response'[r].body = <<>>]_vars

\* the engine raised on a later page: results of earlier pages exist and the
\* exception is on its way to the request boundary
C5_Witness ==
    \E r \in Requests :
        /\ pc[r] = "finally"
        /\ exc[r] = HTTPException(500, "RuntimeError: CUDA out of memory")
        /\ MultiPage(r)
        /\ Len(all_results[r]) >= 1
        /\ Len(all_results[r]) < upload[r].page_count

\* C6: with the model or the tokenizer unset no request gets past the first
\* check: it answers 503 "Model not loaded yet", has created no file and no
\* directory, has read no upload, and the engine is not invoked.
C6_NotReady503 ==
    /\ (model = "None" \/ tokenizer = "None")
          => /\ fs = {}
             /\ \A r \in Requests :
                   /\ pc[r] \in {"new", "done"}
                   /\ pc[r] = "done" => response[r].status = 503
    /\ \A r \in Requests :
          response[r].status = 503
              => /\ pc[r] = "done"
                 /\ response[r].detail = "Model not loaded yet"
                 /\ response[r].body = <<>>
                 /\ upload[r] = NoUpload
                 /\ FilesOf(r) = {}
                 /\ tmp_file[r] = NoPath /\ tmp_images[r] = <<>> /\ out_dir[r] = NoPath

\* a request was refused before the model was loaded
C6_Witness ==
    \E r \in Requests :
        /\ model = "None"
        /\ pc[r] = "done"
        /\ response[r].status = 503

(***************************************************************************)
(* Properties of the detection parser (specification SpecParse)            *)
(***************************************************************************)
HasMalformed(segs) == \E i \in 1..Len(segs) : segs[i] \in Malformed
HasPartlyValid(segs) == \E i \in 1..Len(segs) : segs[i] \in PartlyValid
BlockCount(segs) ==
    Cardinality({i \in 1..Len(segs) : segs[i] \in WellFormed \cup Malformed \cup PartlyValid})

\* the detections of one well-formed segment, its boxes rescaled as the code does
SegDetections(i, size) ==
    [j \in 1..Len(SegBoxes(i)) |->
        Detection(Strip(SegLabel(i)),
                  ScaleCoord(SegBoxes(i)[j][1], size.w), ScaleCoord(SegBoxes(i)[j][2], size.h),
                  ScaleCoord(SegBoxes(i)[j][3], size.w), ScaleCoord(SegBoxes(i)[j][4], size.h))]

\* the detections of every well-formed block of a text, in order of appearance
ExpectedDetections(segs, size) ==
    Concat([i \in 1..Len(segs) |-> SegDetections(segs[i], size)])

\* floor(raw / 999 * dim) in exact arithmetic
FloorScale(raw, dim) == (raw * dim) \div NORM

\* what a text becomes when each well-formed block is replaced by its label and
\* each grounding marker is dropped
ExpectedClean(segs) ==
    Strip(Concat([i \in 1..Len(segs) |->
                    IF segs[i] \in WellFormed THEN SegLabel(segs[i])
                    ELSE IF Segments[segs[i]] = <<GROUNDING>> THEN <<>>
                    ELSE Segments[segs[i]]]))

\* C7: for a text of zero, one or many well-formed detection blocks with prose
\* between them, parse_detections returns the detections of all the blocks, in
\* order of appearance, each under its own block's label.
C7_AllBlocksExtracted ==
    (p_pc \in {"parsed", "cleaned", "page"} /\ ~HasMalformed(p_segs) /\ ~HasPartlyValid(p_segs))
        => p_boxes.boxes = ExpectedDetections(p_segs, p_size)

\* C8: for a text holding a block with malformed coordinates, parse_detections
\* does not raise and still returns the detections of the well-formed blocks
\* before and after it; it raises for no text and no image size.
C8_MalformedSkipped ==
    p_pc \in {"parsed", "cleaned", "page"}
        => /\ ~p_boxes.raised
           /\ (HasMalformed(p_segs) /\ ~HasPartlyValid(p_segs))
                 => p_boxes.boxes = ExpectedDetections(p_segs, p_size)

\* C9: clean_grounding_text replaces every well-formed block by its own label,
\* drops every grounding marker and keeps the text between and around the
\* blocks (up to the whitespace at the two ends of the whole text).
C9_BlocksReplacedByLabels ==
    (p_pc \in {"cleaned", "page"} /\ ~HasMalformed(p_segs) /\ ~HasPartlyValid(p_segs))
        => p_cleaned = ExpectedClean(p_segs)

\* C10: every coordinate of an extracted box is floor(raw / 999 * dimension),
\* the width for x1 and x2 and the height for y1 and y2 (stated for the texts
\* with one detection block, which parse_detections does extract).
C10_FloorRescale ==
    (p_pc \in {"parsed", "cleaned", "page"} /\ ~HasMalformed(p_segs) /\ ~HasPartlyValid(p_segs)
        /\ BlockCount(p_segs) = 1)
        => /\ Len(p_boxes.boxes) = Len(ExpectedDetections(p_segs, p_size))
           /\ \A i \in 1..Len(p_segs) : \A j \in 1..Len(SegBoxes(p_segs[i])) :
                 p_boxes.boxes[j].box =
                     <<FloorScale(SegBoxes(p_segs[i])[j][1], p_size.w),
                       FloorScale(SegBoxes(p_segs[i])[j][2], p_size.h),
                       FloorScale(SegBoxes(p_segs[i])[j][3], p_size.w),
                       FloorScale(SegBoxes(p_segs[i])[j][4], p_size.h)>>

\* C11: every coordinate of every Detection parse_detections returns is
\* non-negative, also for raw coordinates below 0 or above 999.
C11_NonNegativeCoordinates ==
    p_pc \in {"parsed", "cleaned", "page"}
        => \A j \in 1..Len(p_boxes.boxes) : \A c \in 1..4 : p_boxes.boxes[j].box[c] >= 0

\* C12: in a block of several boxes one of which has fewer than 4 numeric
\* elements (too short, or a non-number among the first four), the boxes
\* before and after that box are all turned into Detections.
C12_SiblingBoxesKept ==
    (p_pc \in {"parsed", "cleaned", "page"} /\ BlockCount(p_segs) = 1 /\ HasPartlyValid(p_segs))
        => p_boxes.boxes = ExpectedDetections(p_segs, p_size)

\* the text the page loop works on: trimmed, the sentinel for an empty one
LoopText(t) == IF Strip(t) = <<>> THEN NoText ELSE Strip(t)

\* C20: the boxes and the display text the page loop produces behind its marker
\* tests are those of parse_detections and clean_grounding_text run without
\* the tests on the same trimmed text: a text with neither <|det|> nor <|ref|>
\* has no detections, and one with neither <|ref|> nor <|grounding|> is left
\* as it is by clean_grounding_text.
C20_ShortCircuitOnly ==
    p_pc = "page"
        => LET text == LoopText(p_text)
               boxes == parse_detections(text, p_size.w, p_size.h).boxes
               cleaned == clean_grounding_text(text)
           IN /\ p_page.boxes = boxes
              /\ p_page.display_text =
                    (IF cleaned = <<>> /\ boxes # <<>>
                     THEN Join(LabelTexts(boxes), <<COMMA, WS>>) ELSE cleaned)
              /\ (~Contains(text, "det") /\ ~Contains(text, "ref")) => boxes = <<>>
              /\ (~Contains(text, "ref") /\ ~Contains(text, "grounding")) => cleaned = text

\* a text with <|det|> but without <|ref|> and <|grounding|>: the parser ran,
\* the cleaner was skipped, and the page has no boxes and the text as it was
C20_Witness ==
    /\ p_pc = "page"
    /\ Contains(p_text, "det")
    /\ ~Contains(p_text, "ref")
    /\ ~Contains(p_text, "grounding")
    /\ p_page = [boxes |-> <<>>, display_text |-> Strip(p_text)]

(***************************************************************************)
(* Properties of build_prompt (specification SpecPrompt)                   *)
(***************************************************************************)
NeedsMarker(args) ==
    args.grounding \/ args.mode \in {"find_ref", "layout_map", "pii_redact"}
\* the prompt after "<image>\n" and, if it is there, "<|grounding|>\n"
InstructionPart(args, prompt) ==
    IF NeedsMarker(args) THEN SubSeq(prompt, 5, Len(prompt)) ELSE SubSeq(prompt, 3, Len(prompt))

\* C13: the prompt is the image placeholder, then the grounding marker exactly
\* when the grounding flag is set or the mode is find_ref, layout_map or
\* pii_redact, then the mode's instruction; the response metadata's grounding
\* value is that same condition.
C13_GroundingMarker ==
    /\ q_pc \in {"built", "answered"}
          => /\ Len(prompt_text) >= 2
             /\ prompt_text[1] = IMAGE
             /\ prompt_text[2] = NL
             /\ NeedsMarker(q_args)
                   => Len(prompt_text) >= 4 /\ prompt_text[3] = GROUNDING /\ prompt_text[4] = NL
             /\ InstructionPart(q_args, prompt_text)
                   = Instruction(q_args.mode, q_args.user_prompt, q_args.find_term,
                                 q_args.schema, q_args.include_caption)
    /\ q_pc = "answered" => metadata.grounding = NeedsMarker(q_args)

\* mode find_ref with the grounding flag false: the marker is in the prompt
\* and the metadata say grounding
C13_Witness ==
    /\ q_pc = "answered"
    /\ q_args.mode = "find_ref"
    /\ ~q_args.grounding
    /\ SubSeq(prompt_text, 1, 4) = <<IMAGE, NL, GROUNDING, NL>>
    /\ metadata.grounding

\* no term, no schema text: None, the empty string, or whitespace only
Blank(o) == o.none \/ Strip(o.s) = <<>>

\* C14: in mode find_ref the instruction names Total when there is no search
\* term (None, empty or whitespace only) and the trimmed term otherwise; in
\* mode kv_json it holds {} when there is no schema (None, empty or whitespace
\* only) and the trimmed schema otherwise.
C14_Defaults ==
    (q_pc \in {"built", "answered"} /\ ~q_args.include_caption)
        => LET instruction == InstructionPart(q_args, prompt_text)
           IN /\ q_args.mode = "find_ref"
                    => instruction =
                          <<Word("Locate "), REF>>
                          \o (IF Blank(q_args.find_term) THEN <<Word("Total")>>
                              ELSE Strip(q_args.find_term.s))
                          \o <<EREF, Word(" in the image.")>>
              /\ q_args.mode = "kv_json"
                    => instruction =
                          <<Word("Extract key fields and return strict JSON only. "),
                            Word("Use this schema (fill the values): ")>>
                          \o (IF Blank(q_args.schema) THEN <<Word("{}")>>
                              ELSE Strip(q_args.schema.s))

\* C15: in mode freeform the instruction is the user's prompt as it was given,
\* leading and trailing whitespace included, when that prompt is not empty, and
\* the default instruction otherwise; the instruction is never empty.
C15_FreeformVerbatim ==
    (q_pc \in {"built", "answered"} /\ q_args.mode = "freeform" /\ ~q_args.include_caption)
        => LET instruction == InstructionPart(q_args, prompt_text)
           IN /\ instruction # <<>>
              /\ instruction = (IF q_args.user_prompt # <<>> THEN q_args.user_prompt
                                ELSE DefaultInstruction)

(***************************************************************************)
(* Properties of the response body (specification Spec)                    *)
(***************************************************************************)
MarkerPositions(t) == {i \in 1..Len(t) : t[i].k = "pagesep"}
NthOf(S, i) == CHOOSE x \in S : Cardinality({y \in S : y < x}) = i - 1

\* t holds exactly Len(texts) separator lines, numbered 1, 2, ... in that
\* order, the k-th followed by a newline and texts[k]
SeparatedPages(t, texts) ==
    LET pos == MarkerPositions(t)
        N == Len(texts)
    IN /\ Cardinality(pos) = N
       /\ \A k \in 1..N :
             LET at == NthOf(pos, k)
                 end == IF k < N THEN NthOf(pos, k + 1) - 3 ELSE Len(t)
             IN /\ t[at].n = k
                /\ t[at + 1] = WS
                /\ SubSeq(t, at + 2, end) = texts[k]

\* C16: the body answered for a PDF of N > 1 pages has, in text and in
\* raw_text, exactly N separator lines "--- Page k ---", k = 1..N in order, each
\* followed by page k's text; its boxes are empty; its image_dims are page 1's;
\* and pages holds the N page results in source order, page k with index k, its
\* own image size and its own detections.
C16_MultiPageBody ==
    \A r \in Requests :
        (response[r].status = 200 /\ MultiPage(r))
            => LET b == response[r].body
                   N == upload[r].page_count
               IN /\ Len(b.pages) = N
                  /\ b.total_pages = N
                  /\ b.is_pdf
                  /\ SeparatedPages(b.text, [k \in 1..N |-> b.pages[k].text])
                  /\ SeparatedPages(b.raw_text, [k \in 1..N |-> b.pages[k].raw_text])
                  /\ b.boxes = <<>>
                  /\ b.image_dims = b.pages[1].image_dims
                  /\ \A k \in 1..N :
                        /\ b.pages[k].page = k
                        /\ b.pages[k].image_dims = PageSize(Render(k - 1))
                        /\ pc[r] = "finally"
                              => b.pages[k].boxes =
                                    parse_detections(b.pages[k].raw_text,
                                                     PageSize(Render(k - 1)).w,
                                                     PageSize(Render(k - 1)).h).boxes

\* a three-page PDF was answered; its second page has detections of its own,
\* its third has none, and the body's boxes are empty
C16_Witness ==
    \E r \in Requests :
        /\ pc[r] = "done"
        /\ response[r].status = 200
        /\ upload[r].page_count >= 3
        /\ response[r].body.pages[2].boxes # <<>>
        /\ response[r].body.pages[3].boxes = <<>>
        /\ response[r].body.boxes = <<>>

\* C17: the body answered for a single image, and for a PDF of exactly one
\* page, is the lone page result's text, raw text, boxes and image size, with
\* is_pdf false.
C17_SinglePageBody ==
    \A r \in Requests :
        (pc[r] = "finally" /\ response[r].status = 200 /\ upload[r].page_count = 1)
            => LET b == response[r].body
                   page_result == all_results[r][1]
               IN /\ b.text = page_result.text
                  /\ b.raw_text = page_result.raw_text
                  /\ b.boxes = page_result.boxes
                  /\ b.image_dims = page_result.image_dims
                  /\ b.is_pdf = FALSE

(***************************************************************************)
(* Properties of the exporters (specification SpecExport)                  *)
(***************************************************************************)
PageTitles(out) == {i \in 1..Len(out) : out[i].k \in {"md_h1", "h2", "docx_h1"}}
BoundaryMarkers(out) == {i \in 1..Len(out) : out[i].k \in {"hr", "page_break"}}

\* C18: what each exporter emits for N >= 1 pages has the N titles "Page 1" ..
\* "Page N" in that order and exactly N-1 page-boundary markers, one after
\* every page but the last: each marker stands before the title of a next page.
C18_BoundaryBetweenPages ==
    (e_pc = "exported" /\ Len(pages_content) >= 1)
        => LET N == Len(pages_content)
               titles == PageTitles(e_out)
               markers == BoundaryMarkers(e_out)
           IN /\ Cardinality(titles) = N
              /\ \A k \in 1..N : e_out[NthOf(titles, k)].n = k
              /\ Cardinality(markers) = N - 1
              /\ \A k \in 1..(N - 1) :
                    /\ NthOf(titles, k) < NthOf(markers, k)
                    /\ NthOf(markers, k) < NthOf(titles, k + 1)

(***************************************************************************)
(* Properties of the pixel ceiling (specification SpecGuard)               *)
(***************************************************************************)
\* C19: after any sequence of rasterizer calls the process-wide pixel ceiling
\* is still the fixed finite value, and every page above that value was
\* refused by the rasterizer that met it.
C19_CeilingStaysInForce ==
    /\ MAX_IMAGE_PIXELS = [none |-> FALSE, n |-> PixelCeiling]
    /\ \A c \in 1..Len(g_log) :
          \A i \in 1..Len(g_log[c].doc) :
             g_log[c].doc[i] > PixelCeiling => g_log[c].pages[i] = "refused"

(***************************************************************************)
(* Properties of the fallback text (specification Spec)                    *)
(***************************************************************************)
IsArtifactOf(text, j) == text = Strip(ArtifactOf(j).text)

\* C21: in a multi-page request every page result's raw text is non-empty, and
\* a raw text read from result.mmd is the artifact written during that page's
\* own engine call, never the one an earlier page left in the working directory.
C21_OwnArtifactOnly ==
    \A r \in Requests :
        Len(images_list[r]) > 1
            => \A i \in 1..Len(all_results[r]) :
                  /\ all_results[r][i].raw_text # <<>>
                  /\ \A j \in 0..(Len(images_list[r]) - 1) :
                        IsArtifactOf(all_results[r][i].raw_text, j) => j = i - 1

====
